---- MODULE Spec2Model ----
(***************************************************************************)
(* Range-aware content server and HLS packaging orchestrator of the video  *)
(* streaming service.                                                      *)
(*                                                                         *)
(*   Spec     the range-aware server: VideoStreamService.streamVideo and   *)
(*            R2StreamService.streamVideo, each with its own parseRange    *)
(*   SpecJob  HLSService.convertToHLS with its encoder callbacks and the   *)
(*            stream catalog (streamExists, listStreams)                   *)
(*                                                                         *)
(* Strings are sequences of one-character strings, so that startsWith,     *)
(* replace, split and parseInt are computed as JavaScript computes them.   *)
(***************************************************************************)
EXTENDS Integers, Sequences, FiniteSets, TLC

\* ------------------------------------------------------------------ bounds
\* longest text after the unit prefix of a Range header
MaxTail == 4
\* small object sizes are 0..MaxSize; one two-digit size is added to them
MaxSize == 3
\* longest rendition list given to convertToHLS
MaxQualities == 3
\* segment files one encoder writes at most
MaxSegments == 1

\* ------------------------------------------------- JavaScript string model
Digits == <<"0", "1", "2", "3", "4", "5", "6", "7", "8", "9">>

IsDigit(c) == \E i \in 1..10 : Digits[i] = c

DigitVal(c) == (CHOOSE i \in 1..10 : Digits[i] = c) - 1

\* a JavaScript number: NaN, or an integer value
NaN == [nan |-> TRUE, val |-> 0]

Num(n) == [nan |-> FALSE, val |-> n]

isNaN(x) == x.nan

\* String.prototype.startsWith
startsWith(s, p) == Len(s) >= Len(p) /\ SubSeq(s, 1, Len(p)) = p

\* index of the first occurrence of p in s, 0 when there is none
IndexOf(s, p) ==
  LET hits == {i \in 1..(Len(s) - Len(p) + 1) : SubSeq(s, i, i + Len(p) - 1) = p}
  IN  IF hits = {} THEN 0 ELSE CHOOSE i \in hits : \A j \in hits : i <= j

\* String.prototype.replace with a non-global pattern: the first occurrence
replace(s, p, r) ==
  LET i == IndexOf(s, p)
  IN  IF i = 0 THEN s
      ELSE SubSeq(s, 1, i - 1) \o r \o SubSeq(s, i + Len(p), Len(s))

\* String.prototype.split on a one-character separator
RECURSIVE split(_, _)
split(s, sep) ==
  LET i == IndexOf(s, <<sep>>)
  IN  IF i = 0 THEN <<s>>
      ELSE <<SubSeq(s, 1, i - 1)>> \o split(SubSeq(s, i + 1, Len(s)), sep)

RECURSIVE SkipSpaces(_)
SkipSpaces(s) ==
  IF s # <<>> /\ Head(s) = " " THEN SkipSpaces(Tail(s)) ELSE s

RECURSIVE LeadingDigits(_)
LeadingDigits(s) ==
  IF s # <<>> /\ IsDigit(Head(s)) THEN <<Head(s)>> \o LeadingDigits(Tail(s))
  ELSE <<>>

RECURSIVE DigitsValue(_)
DigitsValue(d) ==
  IF d = <<>> THEN 0
  ELSE 10 * DigitsValue(SubSeq(d, 1, Len(d) - 1)) + DigitVal(d[Len(d)])

\* parseInt(s, 10): leading white space is skipped, one sign is accepted,
\* the longest run of digits is the value, anything after it is ignored,
\* and the result is NaN when no digit is found
parseInt(s) ==
  LET t == SkipSpaces(s)
      neg == t # <<>> /\ Head(t) = "-"
      u == IF t # <<>> /\ Head(t) \in {"+", "-"} THEN Tail(t) ELSE t
      d == LeadingDigits(u)
  IN  IF d = <<>> THEN NaN
      ELSE Num(IF neg THEN 0 - DigitsValue(d) ELSE DigitsValue(d))

\* ------------------------------------------------------------- Range header
BytesEq == <<"b", "y", "t", "e", "s", "=">>

\* no range: what parseRange returns for a rejected header (null)
Null == [ok |-> FALSE, start |-> 0, end |-> 0, chunkSize |-> 0]

RangeData(s, e) == [ok |-> TRUE, start |-> s, end |-> e, chunkSize |-> (e - s) + 1]

\* parseRange with the chunk size short by one byte
parseRange_ChunkShort(range, fileSize) ==
  IF range = <<>> \/ ~startsWith(range, BytesEq) THEN Null
  ELSE LET parts == split(replace(range, BytesEq, <<>>), "-")
           start == parseInt(parts[1])
           end == IF Len(parts) >= 2 /\ parts[2] # <<>>
                  THEN parseInt(parts[2])
                  ELSE Num(fileSize - 1)
       IN  IF isNaN(start) \/ isNaN(end) \/ start.val >= fileSize
              \/ end.val >= fileSize \/ start.val > end.val
           THEN Null
           ELSE [ok |-> TRUE, start |-> start.val, end |-> end.val,
                 chunkSize |-> end.val - start.val]

\* parseRange without the start > end test
parseRange_NoOrderTest(range, fileSize) ==
  IF range = <<>> \/ ~startsWith(range, BytesEq) THEN Null
  ELSE LET parts == split(replace(range, BytesEq, <<>>), "-")
           start == parseInt(parts[1])
           end == IF Len(parts) >= 2 /\ parts[2] # <<>>
                  THEN parseInt(parts[2])
                  ELSE Num(fileSize - 1)
       IN  IF isNaN(start) \/ isNaN(end) \/ start.val >= fileSize
              \/ end.val >= fileSize
           THEN Null
           ELSE RangeData(start.val, end.val)

\* VideoStreamService.parseRange
VideoStreamService_parseRange(range, fileSize) ==
  IF range = <<>> \/ ~startsWith(range, BytesEq) THEN Null
  ELSE LET parts == split(replace(range, BytesEq, <<>>), "-")
           start == parseInt(parts[1])
           end == IF Len(parts) >= 2 /\ parts[2] # <<>>
                  THEN parseInt(parts[2])
                  ELSE Num(fileSize - 1)
       IN  IF isNaN(start) \/ isNaN(end) \/ start.val >= fileSize
              \/ end.val >= fileSize \/ start.val > end.val
           THEN Null
           ELSE RangeData(start.val, end.val)

\* parseRange that cuts an end beyond the object down to its last byte
parseRange_ClampEnd(range, fileSize) ==
  IF range = <<>> \/ ~startsWith(range, BytesEq) THEN Null
  ELSE LET parts == split(replace(range, BytesEq, <<>>), "-")
           start == parseInt(parts[1])
           given == IF Len(parts) >= 2 /\ parts[2] # <<>>
                    THEN parseInt(parts[2])
                    ELSE Num(fileSize - 1)
           end == IF ~isNaN(given) /\ given.val >= fileSize THEN Num(fileSize - 1)
                  ELSE given
       IN  IF isNaN(start) \/ isNaN(end) \/ start.val >= fileSize
              \/ end.val >= fileSize \/ start.val > end.val
           THEN Null
           ELSE RangeData(start.val, end.val)

\* R2StreamService.parseRange
R2StreamService_parseRange(range, fileSize) ==
  IF range = <<>> \/ ~startsWith(range, BytesEq) THEN Null
  ELSE LET parts == split(replace(range, BytesEq, <<>>), "-")
           start == parseInt(parts[1])
           end == IF Len(parts) >= 2 /\ parts[2] # <<>>
                  THEN parseInt(parts[2])
                  ELSE Num(fileSize - 1)
       IN  IF isNaN(start) \/ isNaN(end) \/ start.val >= fileSize
              \/ end.val >= fileSize \/ start.val > end.val
           THEN Null
           ELSE RangeData(start.val, end.val)

\* ------------------------------------------------- requests and the backend
\* characters a client may put after the unit prefix
TailChars == {"0", "1", "-", ",", "x", " ", "+"}

RECURSIVE SeqsUpTo(_, _)
SeqsUpTo(S, n) ==
  IF n = 0 THEN {<<>>}
  ELSE LET shorter == SeqsUpTo(S, n - 1)
       IN  shorter \cup {Append(t, c) : t \in {u \in shorter : Len(u) = n - 1}, c \in S}

Tails == SeqsUpTo(TailChars, MaxTail)

\* <<>> is the absent (or empty, equally falsy) Range header
Headers == {<<>>} \cup {BytesEq \o t : t \in Tails} \cup (Tails \ {<<>>})

\* sizes of the stored object
Sizes == (0..MaxSize) \cup {MaxSize + 10}

Backends == {"local", "r2"}

\* error names the object-store client may give a missing key
MissingNames == {"NoSuchKey", "NotFound"}

NoContentRange == [kind |-> "none", start |-> 0, end |-> 0, size |-> 0]

\* `bytes */${fileSize}`
UnsatisfiedRange(size) == [kind |-> "unsatisfied", start |-> 0, end |-> 0, size |-> size]

\* `bytes ${start}-${end}/${fileSize}`
BytesRange(s, e, size) == [kind |-> "bytes", start |-> s, end |-> e, size |-> size]

\* header value not set
Unset == 0 - 1

\* the response before the handler has touched it (Express defaults)
FreshResponse ==
  [status |-> 200, contentRange |-> NoContentRange, contentLength |-> Unset,
   acceptRanges |-> FALSE, cacheControl |-> FALSE, lastModified |-> FALSE,
   etag |-> FALSE, body |-> "none", ended |-> FALSE]

NoRead == [kind |-> "none", start |-> 0, end |-> 0]

\* number of bytes a read of start..end (inclusive) of an object delivers
ReadLength(size, start, end) ==
  IF start >= size THEN 0
  ELSE (IF end < size THEN end ELSE size - 1) - start + 1

VARIABLES
  backend,    \* which service handles the request
  range,      \* req.headers.range
  objExists,  \* the named object is in the backend
  objSize,    \* its size in bytes
  pc,         \* position of the handler: start, get, streaming, done
  fileSize,   \* stats.size / headResponse.ContentLength
  rangeData,  \* result of parseRange
  res,        \* the response: status, headers, kind of body
  read,       \* the byte range asked of the backend
  bodyLen     \* bytes piped into the response

serverVars == <<backend, range, objExists, objSize, pc, fileSize, rangeData, res, read, bodyLen>>

VARIABLES
  options,            \* options.qualities of the convertToHLS call
  outputName,         \* the stream name of the job
  promise,            \* none (not called), pending, resolved, rejected
  qualities,          \* the quality levels being converted
  enc,                \* per ffmpeg invocation: running, ended, errored
  completedQualities, \* counter of 'end' handlers run
  results,            \* keys of the results object
  rejectedBy,         \* index of the invocation whose error rejected the job
  hls,                \* the hls directory: stream name -> its files
  listed,             \* names returned by the last listStreams call
  listedAt            \* state of the job's promise when listStreams ran

jobVars == <<options, outputName, promise, qualities, enc, completedQualities,
             results, rejectedBy, hls, listed, listedAt>>

VARIABLES
  method,   \* the request method of the route: GET or HEAD
  params,   \* req.params of an HLS route: stream, quality, segment
  fsRead,   \* the path the last filesystem read of an HLS route was given
  catalog   \* a call of listStreams or getStreamQualities: its position, the
            \* directory entries it has still to visit, and what it returns

routeVars == <<method, params, fsRead, catalog>>

vars == <<serverVars, jobVars, routeVars>>

\* VideoStreamService.streamVideo: res.status(416).set({...}); res.end()
Local_RangeNotSatisfiable(size) ==
  [FreshResponse EXCEPT !.status = 416, !.contentRange = UnsatisfiedRange(size),
                        !.acceptRanges = TRUE, !.ended = TRUE]

\* VideoStreamService.streamVideo: res.status(206).set({...})
Local_PartialContent(rd, size) ==
  [FreshResponse EXCEPT !.status = 206,
                        !.contentRange = BytesRange(rd.start, rd.end, size),
                        !.acceptRanges = TRUE, !.contentLength = rd.chunkSize,
                        !.cacheControl = TRUE, !.lastModified = TRUE, !.etag = TRUE]

\* the headers of a whole-content reply without Content-Length
WholeContent_NoLength(size) ==
  [FreshResponse EXCEPT !.acceptRanges = TRUE,
                        !.cacheControl = TRUE, !.lastModified = TRUE, !.etag = TRUE]

\* VideoStreamService.streamVideo: res.set({...}) of a request without
\* Range; the status stays Express's 200
Local_WholeContent(size) ==
  [FreshResponse EXCEPT !.contentLength = size, !.acceptRanges = TRUE,
                        !.cacheControl = TRUE, !.lastModified = TRUE, !.etag = TRUE]

\* R2StreamService.streamVideo: res.status(416).set({...}); res.end()
R2_RangeNotSatisfiable(size) ==
  [FreshResponse EXCEPT !.status = 416, !.contentRange = UnsatisfiedRange(size),
                        !.acceptRanges = TRUE, !.ended = TRUE]

\* the headers of a partial reply with the whole object's length
PartialContent_WholeLength(rd, size) ==
  [FreshResponse EXCEPT !.status = 206,
                        !.contentRange = BytesRange(rd.start, rd.end, size),
                        !.acceptRanges = TRUE, !.contentLength = size,
                        !.cacheControl = TRUE, !.lastModified = TRUE, !.etag = TRUE]

\* R2StreamService.streamVideo: res.status(206).set({...})
R2_PartialContent(rd, size) ==
  [FreshResponse EXCEPT !.status = 206,
                        !.contentRange = BytesRange(rd.start, rd.end, size),
                        !.acceptRanges = TRUE, !.contentLength = rd.chunkSize,
                        !.cacheControl = TRUE, !.lastModified = TRUE, !.etag = TRUE]

\* R2StreamService.streamVideo: res.set({...}) of a request without Range
R2_WholeContent(size) ==
  [FreshResponse EXCEPT !.contentLength = size, !.acceptRanges = TRUE,
                        !.cacheControl = TRUE, !.lastModified = TRUE, !.etag = TRUE]

\* res.status(code).json({error}) of the catch blocks
JsonError(code) ==
  [FreshResponse EXCEPT !.status = code, !.body = "json", !.ended = TRUE]

\* VideoStreamService.streamVideo up to stream.pipe(res): stat, then the
\* synchronous choice of 404, 416, 206 or 200 and the opening of the read
LocalStreamVideo ==
  /\ pc = "start" /\ backend = "local"
  /\ IF ~objExists
     THEN /\ res' = JsonError(404)
          /\ pc' = "done"
          /\ UNCHANGED <<fileSize, rangeData, read>>
     ELSE /\ fileSize' = objSize
          /\ IF range # <<>>
             THEN LET rd == VideoStreamService_parseRange(range, objSize)
                  IN  /\ rangeData' = rd
                      /\ IF ~rd.ok
                         THEN /\ res' = Local_RangeNotSatisfiable(objSize)
                              /\ pc' = "done"
                              /\ read' = read
                         ELSE /\ res' = Local_PartialContent(rd, objSize)
                              /\ read' = [kind |-> "range", start |-> rd.start, end |-> rd.end]
                              /\ pc' = "streaming"
             ELSE /\ res' = Local_WholeContent(objSize)
                  /\ read' = [kind |-> "full", start |-> 0, end |-> 0]
                  /\ pc' = "streaming"
                  /\ rangeData' = rangeData
  /\ UNCHANGED <<backend, range, objExists, objSize, bodyLen>>
  /\ UNCHANGED <<jobVars, routeVars>>

\* the bytes that fs.createReadStream(filePath, {start, end}) pipes into res
LocalPipe ==
  /\ pc = "streaming" /\ backend = "local"
  /\ bodyLen' = IF read.kind = "range" THEN ReadLength(objSize, read.start, read.end)
                ELSE objSize
  /\ res' = [res EXCEPT !.body = "stream", !.ended = TRUE]
  /\ pc' = "done"
  /\ UNCHANGED <<backend, range, objExists, objSize, fileSize, rangeData, read>>
  /\ UNCHANGED <<jobVars, routeVars>>

\* R2StreamService.streamVideo from the HeadObject reply to the sending of
\* GetObject (or to the 416 / the catch block's reply)
R2Head ==
  /\ pc = "start" /\ backend = "r2"
  /\ IF ~objExists
     THEN /\ \E name \in MissingNames :
               res' = IF name = "NoSuchKey" THEN JsonError(404)
                      ELSE IF name = "InvalidRange" THEN JsonError(416)
                      ELSE JsonError(500)
          /\ pc' = "done"
          /\ UNCHANGED <<fileSize, rangeData, read>>
     ELSE /\ fileSize' = objSize
          /\ IF range # <<>>
             THEN LET rd == R2StreamService_parseRange(range, objSize)
                  IN  /\ rangeData' = rd
                      /\ IF ~rd.ok
                         THEN /\ res' = R2_RangeNotSatisfiable(objSize)
                              /\ pc' = "done"
                              /\ read' = read
                         ELSE /\ read' = [kind |-> "range", start |-> rd.start, end |-> rd.end]
                              /\ pc' = "get"
                              /\ res' = res
             ELSE /\ read' = [kind |-> "full", start |-> 0, end |-> 0]
                  /\ pc' = "get"
                  /\ UNCHANGED <<res, rangeData>>
  /\ UNCHANGED <<backend, range, objExists, objSize, bodyLen>>
  /\ UNCHANGED <<jobVars, routeVars>>

\* R2StreamService.streamVideo from the GetObject reply: the headers, or
\* the catch block when the store answers NoSuchKey, or InvalidRange for a
\* range that starts beyond the object the store now holds
R2Get ==
  /\ pc = "get" /\ backend = "r2"
  /\ IF ~objExists
     THEN /\ res' = JsonError(404)
          /\ pc' = "done"
     ELSE IF read.kind = "range" /\ read.start >= objSize
     THEN /\ res' = JsonError(416)
          /\ pc' = "done"
     ELSE /\ res' = IF read.kind = "range" THEN R2_PartialContent(rangeData, fileSize)
                    ELSE R2_WholeContent(fileSize)
          /\ pc' = "streaming"
  /\ UNCHANGED <<backend, range, objExists, objSize, fileSize, rangeData, read, bodyLen>>
  /\ UNCHANGED <<jobVars, routeVars>>

\* response.Body.pipe(res): the bytes the store returned for the GetObject
R2Pipe ==
  /\ pc = "streaming" /\ backend = "r2"
  /\ bodyLen' = IF read.kind = "range" THEN ReadLength(objSize, read.start, read.end)
                ELSE objSize
  /\ res' = [res EXCEPT !.body = "stream", !.ended = TRUE]
  /\ pc' = "done"
  /\ UNCHANGED <<backend, range, objExists, objSize, fileSize, rangeData, read>>
  /\ UNCHANGED <<jobVars, routeVars>>

ServerInit ==
  /\ backend \in Backends
  /\ range \in Headers
  /\ objExists \in BOOLEAN
  /\ objSize \in (IF objExists THEN Sizes ELSE {0})
  /\ pc = "start"
  /\ fileSize = Unset
  /\ rangeData = Null
  /\ res = FreshResponse
  /\ read = NoRead
  /\ bodyLen = 0

\* no request is being served
ServerIdle ==
  /\ backend = "local"
  /\ range = <<>>
  /\ objExists = FALSE
  /\ objSize = 0
  /\ pc = "done"
  /\ fileSize = Unset
  /\ rangeData = Null
  /\ res = FreshResponse
  /\ read = NoRead
  /\ bodyLen = 0

\* --------------------------------------------------------- HLS packaging
\* the default quality levels of convertToHLS
Q720 == [name |-> "720p", width |-> 1280, height |-> 720,
         bitrate |-> <<"2", "5", "0", "0", "k">>, audioBitrate |-> <<"1", "2", "8", "k">>]

Q480 == [name |-> "480p", width |-> 854, height |-> 480,
         bitrate |-> <<"1", "0", "0", "0", "k">>, audioBitrate |-> <<"9", "6", "k">>]

Q360 == [name |-> "360p", width |-> 640, height |-> 360,
         bitrate |-> <<"6", "0", "0", "k">>, audioBitrate |-> <<"6", "4", "k">>]

DefaultQualities == <<Q720, Q480, Q360>>

QualityNames == {"720p", "480p", "360p"}

\* quality levels a caller passes in options.qualities (names may repeat)
OptionTiers == {Q720, Q480}

QualityLists == SeqsUpTo(OptionTiers, MaxQualities)

\* options.qualities: not given, or a list
QualityOptions ==
  {[given |-> FALSE, list |-> <<>>]} \cup {[given |-> TRUE, list |-> l] : l \in QualityLists}

StreamNames == {"movie", "clip"}

\* one line of a playlist
Line(tag, bandwidth, width, height, uri) ==
  [tag |-> tag, bandwidth |-> bandwidth, width |-> width, height |-> height, uri |-> uri]

TagLine(tag) == Line(tag, NaN, 0, 0, <<>>)

BlankLine == TagLine("")

\* JavaScript number times an integer
Times(x, k) == IF isNaN(x) THEN NaN ELSE Num(x.val * k)

RECURSIVE MasterEntries(_)
MasterEntries(levels) ==
  IF levels = <<>> THEN <<>>
  ELSE LET quality == Head(levels)
           bandwidth == Times(parseInt(replace(quality.bitrate, <<"k">>, <<>>)), 1000)
       IN  << Line("#EXT-X-STREAM-INF", bandwidth, quality.width, quality.height, <<>>),
              Line("uri", NaN, 0, 0, <<quality.name, "playlist.m3u8">>),
              BlankLine >>
           \o MasterEntries(Tail(levels))

RECURSIVE Reverse(_)
Reverse(q) == IF q = <<>> THEN <<>> ELSE Append(Reverse(Tail(q)), Head(q))

\* createMasterPlaylist writing the entries last quality first
createMasterPlaylist_Reversed(levels, name) ==
  << TagLine("#EXTM3U"), Line("#EXT-X-VERSION", NaN, 3, 0, <<>>), BlankLine >>
  \o MasterEntries(Reverse(levels))

\* HLSService.createMasterPlaylist(qualities, outputName)
createMasterPlaylist(levels, name) ==
  << TagLine("#EXTM3U"), Line("#EXT-X-VERSION", NaN, 3, 0, <<>>), BlankLine >>
  \o MasterEntries(levels)

\* a rendition directory of a stream: the media playlist and the segments
NoRendition == [dir |-> FALSE, playlist |-> FALSE, lines |-> <<>>, segments |-> 0]

\* the media playlist ffmpeg writes for k segments, ended or still growing
MediaPlaylist(k, ended) ==
  <<"#EXTM3U">> \o [i \in 1..k |-> "#EXTINF"]
  \o (IF ended THEN <<"#EXT-X-ENDLIST">> ELSE <<>>)

\* playlistContent.includes(tag), the content taken line by line
includes(lines, tag) == \E i \in 1..Len(lines) : lines[i] = tag

\* a stream directory under hlsDir
NoStream ==
  [dir |-> FALSE, hasMaster |-> FALSE, master |-> <<>>,
   q |-> [n \in QualityNames |-> NoRendition]]

JobInit ==
  /\ options \in QualityOptions
  /\ outputName \in StreamNames
  /\ promise = "none"
  /\ qualities = <<>>
  /\ enc = <<>>
  /\ completedQualities = 0
  /\ results = {}
  /\ rejectedBy = 0
  /\ hls = [n \in StreamNames |-> NoStream]
  /\ listed = {}
  /\ listedAt = "never"

\* no packaging job exists
JobIdle ==
  /\ options = [given |-> FALSE, list |-> <<>>]
  /\ outputName = "movie"
  /\ promise = "none"
  /\ qualities = <<>>
  /\ enc = <<>>
  /\ completedQualities = 0
  /\ results = {}
  /\ rejectedBy = 0
  /\ hls = [n \in StreamNames |-> NoStream]
  /\ listed = {}
  /\ listedAt = "never"

\* names of the quality levels in a list
NamesOf(list) == {list[i].name : i \in 1..Len(list)}

\* the promise executor of convertToHLS has not yet reached the end of its
\* qualities.forEach: no event handler and no other request runs meanwhile
Executing == \E j \in 1..Len(enc) : enc[j] = "idle"

\* an executor that leaves the writing of the master playlist out
ConvertToHLS_NoMaster ==
  /\ promise = "none"
  /\ LET qs == IF options.given THEN options.list ELSE DefaultQualities
     IN  /\ qualities' = qs
         /\ hls' = [hls EXCEPT ![outputName].dir = TRUE]
         /\ enc' = [i \in 1..Len(qs) |-> "idle"]
  /\ completedQualities' = 0
  /\ results' = {}
  /\ promise' = "pending"
  /\ UNCHANGED <<options, outputName, rejectedBy, listed, listedAt>>
  /\ UNCHANGED <<serverVars, routeVars>>

\* HLSService.convertToHLS, the promise executor up to the forEach: the output
\* directory, the choice of the quality levels, the master playlist
ConvertToHLS ==
  /\ promise = "none"
  /\ LET qs == IF options.given THEN options.list ELSE DefaultQualities
     IN  /\ qualities' = qs
         /\ hls' = [hls EXCEPT ![outputName] =
                      [@ EXCEPT !.dir = TRUE, !.hasMaster = TRUE,
                                !.master = createMasterPlaylist(qs, outputName)]]
         /\ enc' = [i \in 1..Len(qs) |-> "idle"]
  /\ completedQualities' = 0
  /\ results' = {}
  /\ promise' = "pending"
  /\ UNCHANGED <<options, outputName, rejectedBy, listed, listedAt>>
  /\ UNCHANGED <<serverVars, routeVars>>

\* one round of qualities.forEach in the executor: the quality's directory
\* is made and its ffmpeg invocation is started
StartEncoder(i) ==
  /\ enc[i] = "idle"
  /\ \A j \in 1..(i - 1) : enc[j] # "idle"
  /\ hls' = [hls EXCEPT ![outputName].q[qualities[i].name].dir = TRUE]
  /\ enc' = [enc EXCEPT ![i] = "running"]
  /\ UNCHANGED <<options, outputName, promise, qualities, completedQualities,
                 results, rejectedBy, listed, listedAt>>
  /\ UNCHANGED <<serverVars, routeVars>>

\* ffmpeg of invocation i writes a segment file and rewrites the media playlist
EncoderProgress(i) ==
  /\ enc[i] = "running"
  /\ LET n == qualities[i].name
     IN  /\ hls[outputName].q[n].dir
         /\ hls[outputName].q[n].segments < MaxSegments
         /\ hls' = [hls EXCEPT ![outputName].q[n] =
                      [@ EXCEPT !.playlist = TRUE,
                                !.lines = MediaPlaylist(
                                            hls[outputName].q[n].segments + 1, FALSE),
                                !.segments = @ + 1]]
  /\ UNCHANGED <<options, outputName, promise, qualities, enc, completedQualities,
                 results, rejectedBy, listed, listedAt>>
  /\ UNCHANGED <<serverVars, routeVars>>

\* resolve(value) of the promise: only a pending promise settles
Resolve(p) == IF p = "pending" THEN "resolved" ELSE p

\* reject(error) of the promise: only a pending promise settles
Reject(p) == IF p = "pending" THEN "rejected" ELSE p

\* a finalization that appends nothing
finalizeMedia_Skip(playlistContent) == playlistContent

\* a finalization that appends the tag without looking
finalizeMedia_Always(playlistContent) == Append(playlistContent, "#EXT-X-ENDLIST")

\* the 'end' handler's readFileSync, includes test and appendFileSync: the
\* media playlist after the handler has seen the content playlistContent
finalizeMedia(playlistContent) ==
  IF ~includes(playlistContent, "#EXT-X-ENDLIST")
  THEN Append(playlistContent, "#EXT-X-ENDLIST")
  ELSE playlistContent

\* ffmpeg of invocation i exits successfully, leaving its final media
\* playlist (with the end tag or without it), and the 'end' handler runs. Had
\* the quality's directory been removed meanwhile, readFileSync throws and
\* the handler ends there
EncoderEnd(i) ==
  /\ enc[i] = "running" /\ ~Executing
  /\ LET n == qualities[i].name
         rendition == hls[outputName].q[n]
     IN  /\ rendition.segments >= 1 \/ ~rendition.dir
         /\ IF rendition.dir
            THEN /\ \E ffmpegEnded \in BOOLEAN :
                      hls' = [hls EXCEPT ![outputName].q[n] =
                                [@ EXCEPT !.playlist = TRUE,
                                          !.lines = finalizeMedia(
                                             MediaPlaylist(rendition.segments, ffmpegEnded))]]
                 /\ results' = results \cup {n}
                 /\ completedQualities' = completedQualities + 1
                 /\ promise' = IF completedQualities + 1 = Len(qualities)
                               THEN Resolve(promise) ELSE promise
            ELSE UNCHANGED <<hls, results, completedQualities, promise>>
  /\ enc' = [enc EXCEPT ![i] = "ended"]
  /\ UNCHANGED <<options, outputName, qualities, rejectedBy, listed, listedAt>>
  /\ UNCHANGED <<serverVars, routeVars>>

\* an 'error' handler that stops the sibling invocations and removes the
\* master playlist
EncoderError_Cancelling(i) ==
  /\ enc[i] = "running" /\ ~Executing
  /\ enc' = [j \in 1..Len(enc) |-> IF enc[j] = "running" THEN "errored" ELSE enc[j]]
  /\ promise' = Reject(promise)
  /\ rejectedBy' = IF promise = "pending" THEN i ELSE rejectedBy
  /\ hls' = [hls EXCEPT ![outputName].hasMaster = FALSE, ![outputName].master = <<>>]
  /\ UNCHANGED <<options, outputName, qualities, completedQualities, results,
                 listed, listedAt>>
  /\ UNCHANGED <<serverVars, routeVars>>

\* ffmpeg of invocation i fails and the 'error' handler runs
EncoderError(i) ==
  /\ enc[i] = "running" /\ ~Executing
  /\ enc' = [enc EXCEPT ![i] = "errored"]
  /\ promise' = Reject(promise)
  /\ rejectedBy' = IF promise = "pending" THEN i ELSE rejectedBy
  /\ UNCHANGED <<options, outputName, qualities, completedQualities, results,
                 hls, listed, listedAt>>
  /\ UNCHANGED <<serverVars, routeVars>>

\* this.hlsDir, as path components
hlsDir == <<"app", "hls">>

\* files of the host outside hlsDir
OutsideFiles == {<<"app", "keys", "id.ts">>}

\* path.normalize: a ".." component removes the component before it
RECURSIVE Normalize(_, _)
Normalize(acc, rest) ==
  IF rest = <<>> THEN acc
  ELSE IF Head(rest) = ".."
       THEN Normalize(IF acc = <<>> THEN acc ELSE SubSeq(acc, 1, Len(acc) - 1), Tail(rest))
       ELSE Normalize(Append(acc, Head(rest)), Tail(rest))

\* path.join(base, rel)
pathJoin(base, rel) == Normalize(<<>>, base \o rel)

\* fs.existsSync(p) for a file p, the hls directory being `store`
FileExists(store, p) ==
  \/ p \in OutsideFiles
  \/ /\ Len(p) > Len(hlsDir) /\ SubSeq(p, 1, Len(hlsDir)) = hlsDir
     /\ p[3] \in StreamNames
     /\ \/ Len(p) = 4 /\ p[4] = "master.m3u8" /\ store[p[3]].hasMaster
        \/ /\ Len(p) = 5 /\ p[4] \in QualityNames
           /\ \/ p[5] = "playlist.m3u8" /\ store[p[3]].q[p[4]].playlist
              \/ p[5] = "seg0.ts" /\ store[p[3]].q[p[4]].segments >= 1

\* a stream counted as existing only once a media playlist is there too
streamExists_WhenPackaged(streamName) ==
  /\ FileExists(hls, pathJoin(hlsDir, <<streamName, "master.m3u8">>))
  /\ \E n \in QualityNames :
       FileExists(hls, pathJoin(hlsDir, <<streamName, n, "playlist.m3u8">>))

\* HLSService.streamExists
streamExists(streamName) ==
  FileExists(hls, pathJoin(hlsDir, <<streamName, "master.m3u8">>))

\* HLSService.listStreams: the directories of hlsDir that hold a master playlist
ListStreams ==
  /\ ~Executing
  /\ listed' = {item \in StreamNames : hls[item].dir /\ hls[item].hasMaster}
  /\ listedAt' = promise
  /\ UNCHANGED <<options, outputName, promise, qualities, enc, completedQualities,
                 results, rejectedBy, hls>>
  /\ UNCHANGED <<serverVars, routeVars>>

\* no request parameters
\* the size of a segment file, in the unit in which a playlist line is 1
SegmentBytes == 2

\* stats.size of a playlist file
PlaylistBytes(lines) == Len(lines)

\* getStreamSize of a rendition directory: every file in it
RenditionBytes(rendition) ==
  IF ~rendition.dir THEN 0
  ELSE (IF rendition.playlist THEN PlaylistBytes(rendition.lines) ELSE 0)
       + rendition.segments * SegmentBytes

\* the sum over the entries that are directories
RECURSIVE DirBytes(_, _)
DirBytes(stream, names) ==
  IF names = {} THEN 0
  ELSE LET n == CHOOSE x \in names : TRUE
       IN  RenditionBytes(stream.q[n]) + DirBytes(stream, names \ {n})

\* HLSService.getStreamSize of a stream directory: stats.size of every file
\* below it, directories descended into; 0 when readdir throws
getStreamSize(store, streamName) ==
  IF ~store[streamName].dir THEN 0
  ELSE (IF store[streamName].hasMaster THEN PlaylistBytes(store[streamName].master) ELSE 0)
       + DirBytes(store[streamName], QualityNames)

\* qualities that are the directories of the stream, with or without playlist
getStreamQualities_Directories(store, streamName) ==
  {n \in QualityNames : store[streamName].q[n].dir}

\* HLSService.getStreamQualities: the directories of the stream that hold a
\* playlist.m3u8; the empty list when readdir throws
getStreamQualities(store, streamName) ==
  IF ~store[streamName].dir THEN {}
  ELSE {n \in QualityNames :
          store[streamName].q[n].dir /\ store[streamName].q[n].playlist}

\* HLSService.listStreams, readdir(this.hlsDir)
ListStreamsReaddir ==
  /\ ~Executing
  /\ catalog.phase = "idle"
  /\ catalog' = [phase |-> "listing", items |-> {item \in StreamNames : hls[item].dir},
                 streams |-> {}]
  /\ UNCHANGED <<method, params, fsRead>>
  /\ UNCHANGED <<serverVars, jobVars>>

\* HLSService.listStreams, one turn of its loop: stat(itemPath) throws for an
\* entry that is gone and the call fails; an entry with a master playlist
\* is pushed with its qualities and its size
ListStreamsItem(item) ==
  /\ ~Executing
  /\ catalog.phase = "listing" /\ item \in catalog.items
  /\ catalog' =
       IF ~hls[item].dir
       THEN [catalog EXCEPT !.phase = "failed", !.items = {}]
       ELSE [catalog EXCEPT
               !.items = @ \ {item},
               !.streams = IF hls[item].hasMaster
                           THEN @ \cup {[name |-> item,
                                          qualities |-> getStreamQualities(hls, item),
                                          size |-> getStreamSize(hls, item)]}
                           ELSE @]
  /\ UNCHANGED <<method, params, fsRead>>
  /\ UNCHANGED <<serverVars, jobVars>>

\* HLSService.listStreams, return streams
ListStreamsReturn ==
  /\ catalog.phase = "listing" /\ catalog.items = {}
  /\ catalog' = [catalog EXCEPT !.phase = "done"]
  /\ UNCHANGED <<method, params, fsRead>>
  /\ UNCHANGED <<serverVars, jobVars>>

\* a call of HLSService.getStreamQualities on its own, as by GET /:stream/info
GetStreamQualities(streamName) ==
  /\ ~Executing
  /\ catalog.phase = "idle"
  /\ catalog' = [phase |-> "done", items |-> {},
                 streams |-> {[name |-> streamName,
                               qualities |-> getStreamQualities(hls, streamName),
                               size |-> Unset]}]
  /\ UNCHANGED <<method, params, fsRead>>
  /\ UNCHANGED <<serverVars, jobVars>>

\* no call of listStreams or getStreamQualities has been made
NoCatalog == [phase |-> "idle", items |-> {}, streams |-> {}]

NoParams == [stream |-> "", quality |-> <<>>, segment |-> ""]

\* no HLS route is being served
RouteIdle ==
  /\ method = "GET"
  /\ params = NoParams
  /\ fsRead = {}
  /\ catalog = NoCatalog

\* ------------------------------------------------------------ HLS routes
\* req.params.stream of the requests
StreamParams == StreamNames \cup {".."}

\* req.params.quality, decoded: a name, or components joined by %2F
QualityParams == {<<"720p">>, <<"..", "..", "keys">>}

\* req.params.segment: a final component other than playlist.m3u8, which
\* the route registered before this one takes
SegmentParams == {"seg0.ts", "id.ts", "seg0.mp4"}

\* a test of the extension that lets every name through
endsWithTs_Any(segment) == TRUE

\* segment.endsWith('.ts')
endsWithTs(segment) == segment \in {"seg0.ts", "id.ts"}

\* res.json(...) with Express's default status
JsonOk == [FreshResponse EXCEPT !.body = "json", !.ended = TRUE]

\* res.set({...}); res.send(segmentData)
SegmentResponse == [FreshResponse EXCEPT !.cacheControl = TRUE, !.body = "segment",
                                         !.ended = TRUE]

\* a delete that removes the master playlist and leaves the renditions
deleteStream_KeepRenditions(store, streamName) ==
  IF streamName \in StreamNames /\ store[streamName].dir
  THEN [store EXCEPT ![streamName].hasMaster = FALSE, ![streamName].master = <<>>]
  ELSE store

\* the hls directory after fs.rmSync(streamPath, {recursive, force}) when
\* streamPath exists
deleteStream(store, streamName) ==
  IF streamName \in StreamNames /\ store[streamName].dir
  THEN [store EXCEPT ![streamName] = NoStream]
  ELSE store

\* DELETE /:stream
DeleteRoute(stream) ==
  /\ ~Executing
  /\ method' = "DELETE"
  /\ catalog' = catalog
  /\ params' = [NoParams EXCEPT !.stream = stream]
  /\ fsRead' = {}
  /\ IF ~streamExists(stream)
     THEN res' = JsonError(404) /\ hls' = hls
     ELSE res' = JsonOk /\ hls' = deleteStream(hls, stream)
  /\ UNCHANGED <<backend, range, objExists, objSize, pc, fileSize, rangeData, read, bodyLen>>
  /\ UNCHANGED <<options, outputName, promise, qualities, enc, completedQualities,
                 results, rejectedBy, listed, listedAt>>

\* res.set({...}); res.send(playlist)
PlaylistResponse == [FreshResponse EXCEPT !.cacheControl = TRUE, !.body = "playlist",
                                          !.ended = TRUE]

\* GET /:stream/:quality/playlist.m3u8: getPlaylist reads the file, and the
\* catch block answers 500 for whatever readFile throws
PlaylistRoute(stream, quality) ==
  /\ ~Executing
  /\ method' = "GET"
  /\ catalog' = catalog
  /\ params' = [stream |-> stream, quality |-> quality, segment |-> "playlist.m3u8"]
  /\ IF ~streamExists(stream)
     THEN res' = JsonError(404) /\ fsRead' = {}
     ELSE LET fullPath == pathJoin(hlsDir, <<stream>> \o quality \o <<"playlist.m3u8">>)
          IN  /\ fsRead' = {fullPath}
              /\ res' = IF FileExists(hls, fullPath) THEN PlaylistResponse
                        ELSE JsonError(500)
  /\ UNCHANGED <<backend, range, objExists, objSize, pc, fileSize, rangeData, read, bodyLen>>
  /\ UNCHANGED jobVars

\* GET /:stream/:quality/:segment
SegmentRoute(stream, quality, segment) ==
  /\ ~Executing
  /\ method' = "GET"
  /\ catalog' = catalog
  /\ params' = [stream |-> stream, quality |-> quality, segment |-> segment]
  /\ IF ~endsWithTs(segment)
     THEN res' = JsonError(400) /\ fsRead' = {}
     ELSE IF ~streamExists(stream)
     THEN res' = JsonError(404) /\ fsRead' = {}
     ELSE LET fullPath == pathJoin(hlsDir, <<stream>> \o quality \o <<segment>>)
          IN  /\ fsRead' = {fullPath}
              /\ res' = IF FileExists(hls, fullPath) THEN SegmentResponse
                        ELSE JsonError(404)
  /\ UNCHANGED <<backend, range, objExists, objSize, pc, fileSize, rangeData, read, bodyLen>>
  /\ UNCHANGED jobVars

\* POST /convert up to its response: 400 when inputPath or outputName is
\* missing from the body, else res.json({..., status: 'processing'})
ConvertRoute ==
  /\ method = "POST" /\ ~res.ended /\ promise = "none"
  /\ \E complete \in BOOLEAN : res' = IF complete THEN JsonOk ELSE JsonError(400)
  /\ UNCHANGED <<backend, range, objExists, objSize, pc, fileSize, rangeData, read, bodyLen>>
  /\ UNCHANGED <<jobVars, routeVars>>

\* a handler that starts the job without having answered
ConvertRouteStart_Unanswered == ConvertToHLS

\* POST /convert after its response: hlsService.convertToHLS(...) is called,
\* and its outcome is only logged
ConvertRouteStart ==
  /\ method = "POST" /\ res = JsonOk
  /\ ConvertToHLS

\* POST /local with convertToHLS 'true', after the await of
\* hlsService.convertToHLS: the job has resolved, or it was rejected and the
\* inner catch block logged the error; then res.json({..., hls})
UploadRespond ==
  /\ method = "POST" /\ ~res.ended
  /\ promise \in {"resolved", "rejected"}
  /\ res' = JsonOk
  /\ UNCHANGED <<backend, range, objExists, objSize, pc, fileSize, rangeData, read, bodyLen>>
  /\ UNCHANGED <<jobVars, routeVars>>

\* ----------------------------------------------- video routes, stream errors
Methods == {"GET", "HEAD"}

\* Range headers of the requests sent through the routes
RouteHeaders ==
  {<<>>, BytesEq \o <<"0", "-">>, BytesEq \o <<"1", "-", "1">>, BytesEq \o <<"x">>}

\* res.status(code).end()
EndedResponse(code) == [FreshResponse EXCEPT !.status = code, !.ended = TRUE]

\* HEAD /local/:filename: res.set({...}); res.end()
Local_HeadResponse(size) ==
  [FreshResponse EXCEPT !.contentLength = size, !.acceptRanges = TRUE,
                        !.cacheControl = TRUE, !.lastModified = TRUE, !.ended = TRUE]

\* HEAD /r2/:key: res.set({...}); res.end()
R2_HeadResponse(size) ==
  [FreshResponse EXCEPT !.contentLength = size, !.acceptRanges = TRUE,
                        !.cacheControl = TRUE, !.lastModified = TRUE, !.etag = TRUE,
                        !.ended = TRUE]

\* a request for a video (its name has a video extension) reaches its route
RouteInit ==
  /\ backend \in Backends
  /\ method \in Methods
  /\ range \in RouteHeaders
  /\ objExists \in BOOLEAN
  /\ objSize \in (IF objExists THEN Sizes ELSE {0})
  /\ pc = "route"
  /\ fileSize = Unset
  /\ rangeData = Null
  /\ res = FreshResponse
  /\ read = NoRead
  /\ bodyLen = 0
  /\ params = NoParams
  /\ fsRead = {}
  /\ catalog = NoCatalog

\* GET /local/:filename up to the call of streamVideo: fs.existsSync
LocalGetRoute ==
  /\ pc = "route" /\ backend = "local" /\ method = "GET"
  /\ IF ~objExists
     THEN res' = JsonError(404) /\ pc' = "done"
     ELSE res' = res /\ pc' = "start"
  /\ UNCHANGED <<backend, range, objExists, objSize, fileSize, rangeData, read, bodyLen>>
  /\ UNCHANGED <<jobVars, routeVars>>

\* HEAD /local/:filename up to the call of getVideoMetadata: fs.existsSync
LocalHeadRoute ==
  /\ pc = "route" /\ backend = "local" /\ method = "HEAD"
  /\ IF ~objExists
     THEN res' = EndedResponse(404) /\ pc' = "done"
     ELSE res' = res /\ pc' = "meta"
  /\ UNCHANGED <<backend, range, objExists, objSize, fileSize, rangeData, read, bodyLen>>
  /\ UNCHANGED <<jobVars, routeVars>>

\* HEAD /local/:filename from the stat of getVideoMetadata: the headers, or
\* the route's catch block when stat throws
LocalHeadMetadata ==
  /\ pc = "meta" /\ backend = "local"
  /\ IF objExists
     THEN res' = Local_HeadResponse(objSize) /\ fileSize' = objSize
     ELSE res' = EndedResponse(500) /\ fileSize' = fileSize
  /\ pc' = "done"
  /\ UNCHANGED <<backend, range, objExists, objSize, rangeData, read, bodyLen>>
  /\ UNCHANGED <<jobVars, routeVars>>

\* GET /r2/:key up to the call of streamVideo
R2GetRoute ==
  /\ pc = "route" /\ backend = "r2" /\ method = "GET"
  /\ pc' = "start"
  /\ UNCHANGED <<backend, range, objExists, objSize, fileSize, rangeData, res, read, bodyLen>>
  /\ UNCHANGED <<jobVars, routeVars>>

\* HEAD /r2/:key: getVideoMetadata (HeadObject), then the headers, or the
\* route's catch block when the store's client throws
R2HeadRoute ==
  /\ pc = "route" /\ backend = "r2" /\ method = "HEAD"
  /\ IF objExists
     THEN res' = R2_HeadResponse(objSize) /\ fileSize' = objSize
     ELSE res' = EndedResponse(500) /\ fileSize' = fileSize
  /\ pc' = "done"
  /\ UNCHANGED <<backend, range, objExists, objSize, rangeData, read, bodyLen>>
  /\ UNCHANGED <<jobVars, routeVars>>

\* the object is removed from its backend while the request waits for the
\* backend: after the route's check and before stat, HeadObject or GetObject
Vanish ==
  /\ objExists /\ pc \in {"start", "meta", "get"}
  /\ objExists' = FALSE
  /\ UNCHANGED <<backend, range, objSize, pc, fileSize, rangeData, res, read, bodyLen>>
  /\ UNCHANGED <<jobVars, routeVars>>

\* the object is overwritten in the store by one of another size after the
\* reply to HeadObject and before GetObject is served
Overwrite ==
  /\ objExists /\ backend = "r2" /\ pc = "get"
  /\ objSize = fileSize
  /\ \E size \in Sizes \ {objSize} : objSize' = size
  /\ UNCHANGED <<backend, range, objExists, pc, fileSize, rangeData, res, read, bodyLen>>
  /\ UNCHANGED <<jobVars, routeVars>>

\* bytes the read stream has to deliver
ToDeliver ==
  IF read.kind = "range" THEN ReadLength(objSize, read.start, read.end) ELSE objSize

\* res.headersSent: the headers leave with the first byte of the body or
\* with the end of the response
headersSent(response, sent) == response.ended \/ sent > 0

\* the read stream of VideoStreamService.streamVideo emits 'error' after
\* `sent` bytes were piped: the handler of stream.on('error')
LocalStreamError ==
  /\ pc = "streaming" /\ backend = "local"
  /\ \E sent \in {k \in 0..1 : k = 0 \/ k < ToDeliver} :
       /\ bodyLen' = sent
       /\ IF ~headersSent(res, sent)
          THEN res' = [res EXCEPT !.status = 500, !.ended = TRUE] /\ pc' = "done"
          ELSE res' = res /\ pc' = "stalled"
  /\ UNCHANGED <<backend, range, objExists, objSize, fileSize, rangeData, read>>
  /\ UNCHANGED <<jobVars, routeVars>>

\* response.Body of R2StreamService.streamVideo emits 'error' after `sent`
\* bytes were piped: no listener is registered, the event is thrown
R2StreamError ==
  /\ pc = "streaming" /\ backend = "r2"
  /\ \E sent \in {k \in 0..1 : k = 0 \/ k < ToDeliver} : bodyLen' = sent
  /\ pc' = "crashed"
  /\ UNCHANGED <<backend, range, objExists, objSize, fileSize, rangeData, res, read>>
  /\ UNCHANGED <<jobVars, routeVars>>

\* ------------------------------------------------------- specifications
Init == ServerInit /\ JobIdle /\ RouteIdle

Next ==
  \/ LocalStreamVideo
  \/ LocalPipe
  \/ R2Head
  \/ R2Get
  \/ R2Pipe

Spec == Init /\ [][Next]_vars

InitJob == JobInit /\ ServerIdle /\ RouteIdle

NextJob ==
  \/ ConvertToHLS
  \/ \E i \in 1..Len(enc) : StartEncoder(i)
  \/ \E i \in 1..Len(enc) : EncoderProgress(i)
  \/ \E i \in 1..Len(enc) : EncoderEnd(i)
  \/ \E i \in 1..Len(enc) : EncoderError(i)
  \/ ListStreams

SpecJob == InitJob /\ [][NextJob]_vars

\* options.qualities of the jobs run beside the HLS routes
HlsOptions ==
  {[given |-> FALSE, list |-> <<>>], [given |-> TRUE, list |-> <<Q720, Q480>>]}

InitHls == JobInit /\ ServerIdle /\ RouteIdle /\ options \in HlsOptions

NextHls ==
  \/ ConvertToHLS
  \/ \E i \in 1..Len(enc) : StartEncoder(i)
  \/ \E i \in 1..Len(enc) : EncoderProgress(i)
  \/ \E i \in 1..Len(enc) : EncoderEnd(i)
  \/ \E i \in 1..Len(enc) : EncoderError(i)
  \/ \E stream \in StreamParams : DeleteRoute(stream)
  \/ \E stream \in StreamParams, quality \in QualityParams, segment \in SegmentParams :
        SegmentRoute(stream, quality, segment)

SpecHls == InitHls /\ [][NextHls]_vars

\* requests for media playlists at every point of a packaging job
NextPlaylist ==
  \/ ConvertToHLS
  \/ \E i \in 1..Len(enc) : StartEncoder(i)
  \/ \E i \in 1..Len(enc) : EncoderProgress(i)
  \/ \E i \in 1..Len(enc) : EncoderEnd(i)
  \/ \E i \in 1..Len(enc) : EncoderError(i)
  \/ \E stream \in StreamParams, quality \in QualityParams : PlaylistRoute(stream, quality)

SpecPlaylist == InitHls /\ [][NextPlaylist]_vars

\* an upload that asks for packaging: convertToHLS is called without options
InitCatalog == JobInit /\ ServerIdle /\ RouteIdle /\ options \in HlsOptions

NextCatalog ==
  \/ ConvertToHLS
  \/ \E i \in 1..Len(enc) : StartEncoder(i)
  \/ \E i \in 1..Len(enc) : EncoderProgress(i)
  \/ \E i \in 1..Len(enc) : EncoderEnd(i)
  \/ \E i \in 1..Len(enc) : EncoderError(i)
  \/ ListStreamsReaddir
  \/ \E item \in StreamNames : ListStreamsItem(item)
  \/ ListStreamsReturn
  \/ \E streamName \in StreamNames : GetStreamQualities(streamName)

SpecCatalog == InitCatalog /\ [][NextCatalog]_vars

\* the catalog calls with deletions of streams between their steps
NextCatalogDelete ==
  \/ NextCatalog
  \/ \E stream \in StreamNames : DeleteRoute(stream)

SpecCatalogDelete == InitCatalog /\ [][NextCatalogDelete]_vars

InitConvert ==
  /\ JobInit /\ options \in HlsOptions
  /\ ServerIdle
  /\ method = "POST" /\ params = NoParams /\ fsRead = {} /\ catalog = NoCatalog

NextConvert ==
  \/ ConvertRoute
  \/ ConvertRouteStart
  \/ \E i \in 1..Len(enc) : StartEncoder(i)
  \/ \E i \in 1..Len(enc) : EncoderProgress(i)
  \/ \E i \in 1..Len(enc) : EncoderEnd(i)
  \/ \E i \in 1..Len(enc) : EncoderError(i)

SpecConvert == InitConvert /\ [][NextConvert]_vars

InitUpload ==
  /\ JobInit /\ options = [given |-> FALSE, list |-> <<>>]
  /\ ServerIdle
  /\ method = "POST" /\ params = NoParams /\ fsRead = {} /\ catalog = NoCatalog

NextUpload ==
  \/ ConvertToHLS
  \/ \E i \in 1..Len(enc) : StartEncoder(i)
  \/ \E i \in 1..Len(enc) : EncoderProgress(i)
  \/ \E i \in 1..Len(enc) : EncoderEnd(i)
  \/ \E i \in 1..Len(enc) : EncoderError(i)
  \/ UploadRespond

SpecUpload == InitUpload /\ [][NextUpload]_vars

InitRoute == RouteInit /\ JobIdle

NextRoute ==
  \/ LocalGetRoute
  \/ LocalHeadRoute
  \/ LocalHeadMetadata
  \/ R2GetRoute
  \/ R2HeadRoute
  \/ Vanish
  \/ Overwrite
  \/ LocalStreamVideo
  \/ LocalPipe
  \/ LocalStreamError
  \/ R2Head
  \/ R2Get
  \/ R2Pipe
  \/ R2StreamError

SpecRoute == InitRoute /\ [][NextRoute]_vars

\* ------------------------------------------------------ claims, Spec
\* the handler has read the object's size and parsed a Range header
Parsed == objExists /\ range # <<>> /\ pc # "start"

\* the header text after the unit prefix
RangeText(h) == SubSeq(h, Len(BytesEq) + 1, Len(h))

AllDigits(t) == \A i \in 1..Len(t) : IsDigit(t[i])

\* h is bytes=<start>-<end>? exactly: digits, one dash, optional digits
ExactRangeHeader(h) ==
  /\ startsWith(h, BytesEq)
  /\ LET t == RangeText(h)
         i == IndexOf(t, <<"-">>)
     IN  /\ i > 1
         /\ AllDigits(SubSeq(t, 1, i - 1))
         /\ AllDigits(SubSeq(t, i + 1, Len(t)))

\* C1: for a header bytes=S-E with 0 <= S <= E < size, parseRange of either
\* service returns start S, end E, chunkSize E-S+1; for bytes=S- with
\* 0 <= S < size it returns start S, end size-1, chunkSize size-S.
C1_ValidRangeResolved ==
  (Parsed /\ ExactRangeHeader(range)) =>
    LET t == RangeText(range)
        i == IndexOf(t, <<"-">>)
        S == DigitsValue(SubSeq(t, 1, i - 1))
        endText == SubSeq(t, i + 1, Len(t))
        E == DigitsValue(endText)
    IN  /\ (endText # <<>> /\ S <= E /\ E < objSize) =>
              rangeData = [ok |-> TRUE, start |-> S, end |-> E, chunkSize |-> E - S + 1]
        /\ (endText = <<>> /\ S < objSize) =>
              rangeData = [ok |-> TRUE, start |-> S, end |-> objSize - 1,
                           chunkSize |-> objSize - S]

\* the remote service has resolved an open-ended range with a two-digit start
C1_Witness ==
  /\ Parsed /\ backend = "r2" /\ objSize > 10
  /\ range = BytesEq \o <<"1", "0", "-">>
  /\ rangeData = [ok |-> TRUE, start |-> 10, end |-> objSize - 1,
                  chunkSize |-> objSize - 10]

\* the start or end field of h is not a number (parseInt finds no numeral at
\* its head), or start >= size, or end >= size, or start > end
Unsatisfiable(h, size) ==
  /\ startsWith(h, BytesEq)
  /\ LET f == split(RangeText(h), "-")
         a == parseInt(f[1])
         hasEnd == Len(f) >= 2 /\ f[2] # <<>>
         b == IF hasEnd THEN parseInt(f[2]) ELSE NaN
     IN  \/ isNaN(a)
         \/ hasEnd /\ isNaN(b)
         \/ ~isNaN(a) /\ a.val >= size
         \/ hasEnd /\ ~isNaN(b) /\ b.val >= size
         \/ hasEnd /\ ~isNaN(a) /\ ~isNaN(b) /\ a.val > b.val

\* C2: a Range header whose start >= size, or end >= size, or start > end, or
\* whose start or end field is not a number is rejected by parseRange, and
\* streamVideo of either service answers 416 with Content-Range: bytes */<size>
\* and no body; nothing is read from the backend and no range is served.
C2_UnsatisfiableIs416 ==
  (objExists /\ pc # "start" /\ Unsatisfiable(range, objSize)) =>
    /\ pc = "done"
    /\ ~rangeData.ok
    /\ res.status = 416
    /\ res.contentRange = UnsatisfiedRange(objSize)
    /\ res.body = "none" /\ res.ended
    /\ read = NoRead /\ bodyLen = 0

\* the remote service has answered 416 to an end beyond the object
C2_Witness ==
  /\ backend = "r2" /\ objExists /\ objSize = 2 /\ pc = "done"
  /\ range = BytesEq \o <<"1", "-", "1", "1">>
  /\ res.status = 416 /\ res.contentRange = UnsatisfiedRange(2)

\* C3: parseRange returns no range for a header that is not
\* bytes=<start>-<end>? exactly (multi-range, suffix range, characters after
\* a number, further dashes).
C3_OnlyExactHeadersResolved ==
  (Parsed /\ ~ExactRangeHeader(range)) => ~rangeData.ok

\* C4: every range parseRange returns satisfies 0 <= start <= end < totalSize,
\* for every header and every size, 0 included.
C4_RangeWithinObject ==
  (Parsed /\ rangeData.ok) =>
    /\ 0 <= rangeData.start
    /\ rangeData.start <= rangeData.end
    /\ rangeData.end < objSize

\* a one-byte range at the very end of the object has been returned
C4_Witness ==
  /\ Parsed /\ rangeData.ok
  /\ rangeData.start = rangeData.end /\ rangeData.end = objSize - 1
  /\ objSize > 1

\* C9: without a Range header, for an existing object, streamVideo of either
\* service answers 200 with Accept-Ranges: bytes, Content-Length equal to the
\* object's size, and the whole object as body.
C9_NoRangeIs200 ==
  (objExists /\ range = <<>>) =>
    /\ pc \in {"streaming", "done"} =>
         /\ res.status = 200
         /\ res.acceptRanges
         /\ res.contentLength = objSize
         /\ res.contentRange = NoContentRange
         /\ read.kind = "full"
    /\ pc = "done" => (res.body = "stream" /\ bodyLen = objSize)

\* the whole of a 13-byte object has been streamed from the local backend
C9_Witness ==
  /\ backend = "local" /\ objExists /\ range = <<>> /\ pc = "done"
  /\ objSize > 10 /\ res.status = 200 /\ bodyLen = objSize

\* C10: when the Range header resolves to (start, end), streamVideo of either
\* service answers 206 with Content-Range: bytes <start>-<end>/<size> and
\* Content-Length end-start+1, asks the backend for exactly the bytes
\* start..end, and the body has end-start+1 bytes.
C10_RangeIs206 ==
  (Parsed /\ rangeData.ok) =>
    /\ pc \in {"streaming", "done"} =>
         /\ res.status = 206
         /\ res.contentRange = BytesRange(rangeData.start, rangeData.end, objSize)
         /\ res.contentLength = rangeData.end - rangeData.start + 1
    /\ read = [kind |-> "range", start |-> rangeData.start, end |-> rangeData.end]
    /\ pc = "done" =>
         (res.body = "stream" /\ bodyLen = rangeData.end - rangeData.start + 1)

\* bytes 1..11 of a larger object have been streamed from the remote backend
C10_Witness ==
  /\ backend = "r2" /\ pc = "done" /\ rangeData.ok
  /\ rangeData.start = 1 /\ rangeData.end = 11
  /\ res.status = 206 /\ bodyLen = 11

\* --------------------------------------------------- claims, SpecJob
\* bits per second of a bitrate written as <n>k
Bps(bitrate) == parseInt(replace(bitrate, <<"k">>, <<>>)).val * 1000

NonBlank(lines) == SelectSeq(lines, LAMBDA l : l # BlankLine)

\* the master playlist the job has written
Master == hls[outputName].master

\* C5: the job resolves if and only if all N encoder invocations have emitted
\* 'end'; once an invocation has emitted 'error' the job is rejected with an
\* invocation's error, however many others have completed.
C5_ResolvedIffAllEnded ==
  promise # "none" =>
    /\ (promise = "resolved") <=> (\A i \in 1..Len(qualities) : enc[i] = "ended")
    /\ (\E i \in 1..Len(qualities) : enc[i] = "errored") =>
          (promise = "rejected" /\ rejectedBy \in 1..Len(qualities)
           /\ enc[rejectedBy] = "errored")

\* C5 for a job of at least one quality level: resolved exactly when every
\* invocation has ended, rejected by an errored invocation once one has errored
C5_NonEmptyJob ==
  (promise # "none" /\ Len(qualities) >= 1) =>
    /\ (promise = "resolved") <=> (\A i \in 1..Len(qualities) : enc[i] = "ended")
    /\ (\E i \in 1..Len(qualities) : enc[i] = "errored") =>
          (promise = "rejected" /\ rejectedBy \in 1..Len(qualities)
           /\ enc[rejectedBy] = "errored")

\* C6: the BANDWIDTH of each master playlist entry is the rendition's video
\* bitrate plus its audio bitrate, in bits per second.
C6_BandwidthIsVideoPlusAudio ==
  promise # "none" =>
    \A i \in 1..Len(qualities) :
      NonBlank(Master)[2 * i + 1].bandwidth =
        Num(Bps(qualities[i].bitrate) + Bps(qualities[i].audioBitrate))

\* C7: the master playlist is #EXTM3U, #EXT-X-VERSION:3, then for each input
\* rendition, in input order, one #EXT-X-STREAM-INF line followed by
\* <renditionName>/playlist.m3u8, and no other entry.
C7_MasterPlaylistEntries ==
  promise # "none" =>
    LET m == NonBlank(Master)
    IN  /\ Len(m) = 2 + 2 * Len(qualities)
        /\ m[1] = TagLine("#EXTM3U")
        /\ m[2].tag = "#EXT-X-VERSION" /\ m[2].width = 3
        /\ \A i \in 1..Len(qualities) :
             /\ m[2 * i + 1].tag = "#EXT-X-STREAM-INF"
             /\ m[2 * i + 1].width = qualities[i].width
             /\ m[2 * i + 1].height = qualities[i].height
             /\ m[2 * i + 2].tag = "uri"
             /\ m[2 * i + 2].uri = <<qualities[i].name, "playlist.m3u8">>

\* the master playlist of the three default quality levels has been written
C7_Witness ==
  /\ promise = "pending" /\ qualities = DefaultQualities
  /\ Len(NonBlank(Master)) = 8
  /\ NonBlank(Master)[4].uri = <<"720p", "playlist.m3u8">>
  /\ NonBlank(Master)[8].uri = <<"360p", "playlist.m3u8">>

\* C8: once the job of a stream name has been rejected, streamExists is false
\* for that name and listStreams does not return it.
C8_FailedJobNotAvailable ==
  promise = "rejected" =>
    /\ ~streamExists(outputName)
    /\ listedAt = "rejected" => outputName \notin listed

\* the media playlist of quality name n of the job's stream, in store
PlaylistOf(store, n) == store[outputName].q[n].lines

Terminated(lines) == includes(lines, "#EXT-X-ENDLIST")

\* number of #EXT-X-ENDLIST lines
EndlistCount(lines) == Cardinality({k \in 1..Len(lines) : lines[k] = "#EXT-X-ENDLIST"})

\* C15: the 'error' of one invocation leaves the master playlist, every
\* rendition's files, the results and the sibling invocations as they were;
\* a sibling that ends after the job was rejected still finalizes its
\* media playlist.
C15_FailureLeavesSiblings ==
  [][\A i \in 1..Len(enc) :
       /\ EncoderError(i) =>
            /\ hls' = hls
            /\ results' = results
            /\ \A j \in (1..Len(enc)) \ {i} : enc'[j] = enc[j]
       /\ (promise = "rejected" /\ EncoderEnd(i)) =>
            /\ Terminated(PlaylistOf(hls', qualities[i].name))
            /\ hls'[outputName].master = hls[outputName].master]_vars

\* the job was rejected by its first invocation, a sibling has ended and
\* finalized its playlist, another is still running, the master is in place
C15_Witness ==
  /\ promise = "rejected" /\ rejectedBy = 1 /\ Len(enc) = 3
  /\ enc[2] = "ended" /\ enc[3] = "running"
  /\ Terminated(PlaylistOf(hls, qualities[2].name))
  /\ hls[outputName].master = createMasterPlaylist(qualities, outputName)

\* C16: when an encoder invocation of a job is started, the job's master
\* playlist is already written.
C16_MasterBeforeEncoders ==
  [][\A i \in 1..Len(enc) :
       StartEncoder(i) =>
         /\ hls[outputName].hasMaster
         /\ hls[outputName].master = createMasterPlaylist(qualities, outputName)]_vars

\* the executor is between the start of the first and of the second encoder
C16_Witness ==
  /\ Len(enc) >= 2 /\ enc[1] = "running" /\ enc[2] = "idle"
  /\ hls[outputName].hasMaster

\* C17: a rendition enters the results and the count of completed qualities
\* only in a step after which its media playlist holds #EXT-X-ENDLIST; in
\* the step that resolves the job every requested rendition's media playlist
\* holds it.
C17_FinalizedBeforeCompleted ==
  [][/\ \A n \in results' \ results : Terminated(PlaylistOf(hls', n))
     /\ (promise # "none" /\ completedQualities' # completedQualities) =>
          \E i \in 1..Len(enc) :
            /\ enc[i] = "running" /\ enc'[i] = "ended"
            /\ qualities[i].name \in results'
            /\ Terminated(PlaylistOf(hls', qualities[i].name))
     /\ (promise = "pending" /\ promise' = "resolved") =>
          \A i \in 1..Len(qualities) :
            Terminated(PlaylistOf(hls', qualities[i].name))]_vars

\* a job of two different quality levels has resolved
C17_Witness ==
  /\ promise = "resolved" /\ Len(qualities) >= 2
  /\ qualities[1].name # qualities[2].name
  /\ \A i \in 1..Len(qualities) : Terminated(PlaylistOf(hls, qualities[i].name))

\* C18: finalization appends #EXT-X-ENDLIST once to a media playlist that
\* lacks it and leaves one that holds it unchanged; applied again it changes
\* nothing, so the result has exactly one #EXT-X-ENDLIST line. Stated of
\* every media playlist the job's encoders leave in the store.
C18_FinalizeIdempotent ==
  \A n \in QualityNames :
    hls[outputName].q[n].playlist =>
      LET lines == PlaylistOf(hls, n)
          once == finalizeMedia(lines)
      IN  /\ Terminated(lines) => once = lines
          /\ ~Terminated(lines) => once = Append(lines, "#EXT-X-ENDLIST")
          /\ finalizeMedia(once) = once
          /\ EndlistCount(once) = 1

\* the store holds a media playlist with the end tag and one without it
C18_Witness ==
  /\ \E n \in QualityNames :
       hls[outputName].q[n].playlist /\ Terminated(PlaylistOf(hls, n))
  /\ \E n \in QualityNames :
       hls[outputName].q[n].playlist /\ ~Terminated(PlaylistOf(hls, n))

\* C19: streamExists(name) is true exactly when the stream's master playlist
\* file is present; while invocations of a job have not yet ended, the job's
\* stream is reported as existing.
C19_ExistsIsMasterPresent ==
  /\ \A name \in StreamNames : streamExists(name) <=> hls[name].hasMaster
  /\ (\E i \in 1..Len(enc) : enc[i] \in {"idle", "running"}) => streamExists(outputName)

\* the job's stream exists while no rendition has a media playlist yet
C19_Witness ==
  /\ promise = "pending" /\ Len(enc) >= 1
  /\ \A i \in 1..Len(enc) : enc[i] = "running"
  /\ \A n \in QualityNames : ~hls[outputName].q[n].playlist
  /\ streamExists(outputName)

\* every encoder invocation of the job has emitted 'end' or 'error'
AllFinished ==
  /\ promise # "none" /\ ~Executing
  /\ \A i \in 1..Len(enc) : enc[i] \in {"ended", "errored"}

\* C24: once every encoder invocation of a job has emitted 'end' or
\* 'error', the job is settled: resolved or rejected.
C24_SettledWhenAllFinished ==
  AllFinished => promise \in {"resolved", "rejected"}

\* the same for jobs of at least one rendition
C24_NonEmptyJob ==
  (AllFinished /\ Len(enc) >= 1) => promise \in {"resolved", "rejected"}

\* C28: when a job over N renditions resolves, its result holds exactly N
\* entries, one per requested rendition.
C28_OneEntryPerRendition ==
  promise = "resolved" => Cardinality(results) = Len(qualities)

\* --------------------------------------------------- claims, SpecRoute
\* C11: a GET or HEAD request whose object is absent from its backend when
\* the backend is asked for it (missing from the start, or removed after the
\* route's existence check) is answered with status 404.
C11_AbsentIs404 ==
  (pc = "done" /\ ~objExists) => res.status = 404

\* C12: a read-stream error never puts an error status on a response whose
\* headers have left, and is always handled: the response is neither left
\* open without an end nor is the error thrown out of the event loop.
C12_StreamErrorHandled ==
  /\ bodyLen > 0 => res.status \in {200, 206}
  /\ pc \notin {"stalled", "crashed"}

\* ----------------------------------------------------- claims, SpecHls
\* the master playlist of a stream of that name is in the store
MasterPresent(store, name) == name \in StreamNames /\ store[name].hasMaster

\* C13: DELETE of a stream name that does not exist answers 404 and leaves
\* the hls directory as it was; DELETE of an existing stream removes its
\* whole directory tree, leaves the other streams alone, and streamExists
\* of that name is false afterwards.
C13_DeleteStream ==
  [][\A stream \in StreamParams :
       DeleteRoute(stream) =>
         IF ~MasterPresent(hls, stream)
         THEN res'.status = 404 /\ hls' = hls
         ELSE /\ res'.status = 200
              /\ hls'[stream] = NoStream
              /\ \A other \in StreamNames \ {stream} : hls'[other] = hls[other]
              /\ ~MasterPresent(hls', stream)
              /\ ~FileExists(hls', hlsDir \o <<stream, "master.m3u8">>)]_vars

\* the stream of a job with a completed rendition has been deleted
C13_Witness ==
  /\ method = "DELETE" /\ res = JsonOk /\ params.stream = outputName
  /\ results # {}
  /\ hls[outputName] = NoStream

\* C14: no route reads a file outside the base directory of its backend:
\* every path handed to a filesystem read lies under hlsDir.
C14_NoReadOutsideRoot ==
  \A p \in fsRead : Len(p) >= Len(hlsDir) /\ SubSeq(p, 1, Len(hlsDir)) = hlsDir

C25_HeadersDescribeBody ==
  (backend = "r2" /\ pc = "done" /\ res.body = "stream") =>
    /\ res.contentLength = bodyLen
    /\ res.status = 206 => res.contentRange.size = objSize

\* final path components that end in ".ts"
TsNames == {"seg0.ts", "id.ts"}

\* C22: a segment request whose final path component does not end in ".ts"
\* is answered 400, whether or not the stream exists, and reads no file.
C22_NonTsIs400 ==
  [][\A stream \in StreamParams, quality \in QualityParams, segment \in SegmentParams :
       (SegmentRoute(stream, quality, segment) /\ segment \notin TsNames) =>
         res'.status = 400 /\ fsRead' = {}]_vars

\* a name without ".ts" was refused in a stream that exists and holds segments
C22_Witness ==
  /\ method = "GET" /\ params.segment = "seg0.mp4" /\ params.quality = <<"720p">>
  /\ params.stream = outputName /\ MasterPresent(hls, outputName)
  /\ hls[outputName].q["720p"].segments >= 1
  /\ res.status = 400 /\ res.ended /\ fsRead = {}

\* --------------------------------------------------- claims, SpecCatalog

\* the renditions of a stream whose media playlist is on disk
PlaylistsPresent(store, name) == {n \in QualityNames : store[name].q[n].playlist}

\* bytes of the segment files of all renditions of a stream
SegmentsBytes(store, name) ==
  SegmentBytes * (store[name].q["720p"].segments + store[name].q["480p"].segments
                    + store[name].q["360p"].segments)

C29_SizeIsSegmentBytes ==
  [][\A item \in StreamNames :
       ListStreamsItem(item) =>
         \A st \in catalog'.streams \ catalog.streams :
           st.size = SegmentsBytes(hls, st.name)]_vars

\* --------------------------------------------------- claims, SpecPlaylist

\* C26: a request for a media playlist that is absent, in a stream that
\* exists, is answered 404.
C26_AbsentPlaylistIs404 ==
  [][\A stream \in StreamNames, n \in QualityNames :
       (PlaylistRoute(stream, <<n>>) /\ MasterPresent(hls, stream)
          /\ ~hls[stream].q[n].playlist) => res'.status = 404]_vars

\* --------------------------------------------------- claims, SpecConvert

\* C23: POST /convert sends its acknowledgment before the job starts, and
\* nothing the job does afterwards changes the response that was sent.
C23_AcknowledgedBeforeJob ==
  [][/\ (promise = "none" /\ promise' # "none") => (res = JsonOk /\ res' = res)
     /\ res.ended => res' = res
     /\ promise' # "none" => res' = JsonOk]_vars

\* the job failed and the acknowledgment stands
C23_Witness ==
  /\ method = "POST" /\ res = JsonOk
  /\ promise = "rejected" /\ rejectedBy # 0

\* --------------------------------------------------- claims, SpecUpload
\* C20: a failed packaging job is never answered with a success status: the
\* response of the request that ran the job carries an error status.
C20_FailureIsErrorStatus ==
  (res.ended /\ promise = "rejected") => res.status >= 400

====
